---- MODULE Spec2Model ----
(***************************************************************************)
(* Model of ironlobe's BTreeBook (src/src/book/btree_book.rs): a limit     *)
(* order book whose two sides are ordered maps from price to a FIFO queue  *)
(* of orders, with a journal of events, a last traded price and a per-side *)
(* depth.                                                                  *)
(*                                                                         *)
(* Prices are f64 compared through the total-order wrapper F64; they are   *)
(* modelled as integer ticks.  Quantities are u64; a u64 value v is        *)
(* represented by v itself when it is small and by v - 2^64 (a negative    *)
(* integer) when it is close to 2^64, so that wrapping arithmetic is plain *)
(* integer arithmetic and only the comparisons need care (U64Less).        *)
(* An Option<T> is the empty sequence (None) or a one-element sequence.    *)
(*                                                                         *)
(* add is modelled at the granularity of the match loop: entering match is *)
(* a step, every iteration of the inner while loop that fills is a step,   *)
(* and leaving the loop, prune and the return are the last step.  While    *)
(* pc = "match" exactly one of MatchStep and Prune is enabled.             *)
(***************************************************************************)
EXTENDS Integers, Sequences, FiniteSets, TLC

\* ---------------------------------------------------------------- bounds

\* Spec: the producer's prices, quantities and number of orders
MaxPrice == 2
MaxQty == 2
MaxOrders == 3

\* SmallSpec: the same engine under a narrower producer
SmallPrice == 1
SmallQty == 1
SmallOrders == 3

\* WideSpec: two prices, positive quantities
WidePrice == 2
WideQty == 1
WideOrders == 3

\* DeepSpec: one price, quantities up to three, four orders
DeepQty == 3
DeepOrders == 4

\* journal length beyond which the match loop is no longer followed
MaxEvents == 6

\* LegacySpec: the ids, prices and quantities of the legacy Book's orders
LegacyOrders == 2
LegacyPrice == 2
LegacyQty == 2

\* ConcSpec: two clones of one book, each in its own thread
ConcPrice == 2
ConcQty == 1
ConcOrders == 4

\* ClockSpec: the readings of the system clock and the number of orders
MaxClock == 1
ClockOrders == 2

Prices == 1..MaxPrice
Quantities == 0..MaxQty
OrderKind == {"Bid", "Ask"}

VARIABLES
    bids,               \* BTreeMap<F64, VecDeque<T>>: price -> queue
    asks,               \* BTreeMap<F64, VecDeque<T>>: price -> queue
    events,             \* Vec<Event<T>>
    ltp,                \* Option<Price>
    depth,              \* (Quantity, Quantity)
    removals,           \* Vec<OrderId>
    wrapped,            \* an overflow wrapped: no overflow checks in this build
    pc,                 \* position of the running call
    order,              \* match: the incoming order (Option)
    opposing_side,      \* match: the level keys still to be visited
    match_ltp,          \* match: local `ltp`
    quantity_remaining, \* match: local `quantity_remaining`
    submitted,          \* number of orders handed to add so far
    last_call,          \* the public call that was entered last
    now,                \* the reading Utc::now() returns
    timestamps,         \* Event::timestamp of each event of the journal
    other,              \* an add running on a clone, in another thread
    legacy              \* the legacy Book of book.rs

vars == <<bids, asks, events, ltp, depth, removals, wrapped, pc,
          order, opposing_side, match_ltp, quantity_remaining, submitted,
          last_call, now, timestamps, other, legacy>>

\* what the calls on this handle of the BTreeBook leave alone: the system
\* clock, the thread of the clone and the legacy Book
elsewhere == <<now, other, legacy>>

\* ------------------------------------------------------------ value types

None == <<>>

Some(x) == <<x>>

\* PlainOrder; the producer's ids are unique and issued in arrival order
PlainOrder(id, kind, price, quantity) ==
    [id |-> id, kind |-> kind, price |-> price, quantity |-> quantity]

\* u64 comparison on the windowed representation
U64Less(a, b) == IF (a < 0) = (b < 0) THEN a < b ELSE b < 0

\* a - b overflows (goes below zero) in u64
SubOverflows(a, b) == U64Less(a, b)

\* a + b overflows (reaches 2^64) in u64
AddOverflows(a, b) ==
    IF a >= 0 /\ b >= 0 THEN FALSE
    ELSE IF a < 0 /\ b < 0 THEN TRUE
    ELSE a + b >= 0

\* a posted order journalled under the wrong EventKind
PostAsCancel(o) == [kind |-> "Cancel", order |-> o]

PostEvent(o) == [kind |-> "Post", order |-> o]

CancelEvent(o) == [kind |-> "Cancel", order |-> o]

MatchEvent(m, incumbent, o, q) ==
    [kind |-> "Match", match |-> m, incumbent |-> incumbent,
     others |-> << <<o, q>> >>]

\* Vec::push in the place of which the last event is overwritten
PushOver(journal, e) ==
    IF journal = <<>> THEN <<e>>
    ELSE [journal EXCEPT ![Len(journal)] = e]

\* `self.events.write().unwrap().push(event)`
Push(journal, e) == Append(journal, e)

\* ------------------------------------------------------- ordered-map help

MinKey(S) == CHOOSE p \in S : \A q \in S : p <= q

MaxKey(S) == CHOOSE p \in S : \A q \in S : p >= q

RECURSIVE Descending(_)
\* the keys of a BTreeMap as iter().rev() yields them
Descending(S) ==
    IF S = {} THEN <<>>
    ELSE <<MaxKey(S)>> \o Descending(S \ {MaxKey(S)})

\* VecDeque::push_front in the place of push_back
PushFront(level, o) == <<o>> \o level

\* VecDeque::push_back
PushBack(level, o) == Append(level, o)

\* VecDeque::remove(i)
RemoveAt(level, i) ==
    SubSeq(level, 1, i - 1) \o SubSeq(level, i + 1, Len(level))

\* iter().position(|x| x.id() == id): 0 when absent
Position(level, id) ==
    IF \E i \in 1..Len(level) : level[i].id = id
    THEN CHOOSE i \in 1..Len(level) :
            /\ level[i].id = id
            /\ \A j \in 1..(i - 1) : level[j].id # id
    ELSE 0

\* insert(price, [order]) in the place of entry(price)...push_back(order)
InsertReplacing(side, o) ==
    [p \in DOMAIN side \cup {o.price} |->
        IF p = o.price THEN PushBack(<<>>, o) ELSE side[p]]

\* entry(price).or_insert_with(empty).push_back(order)
Insert(side, o) ==
    IF o.price \in DOMAIN side
    THEN [side EXCEPT ![o.price] = PushBack(@, o)]
    ELSE [p \in DOMAIN side \cup {o.price} |->
            IF p = o.price THEN PushBack(<<>>, o) ELSE side[p]]

\* BTreeMap::remove for a set of keys
RemoveKeys(side, ks) == [p \in DOMAIN side \ ks |-> side[p]]

\* ----------------------------------------------------------------- queries

\* first_key_value() of a side
FirstKey(side) == IF DOMAIN side = {} THEN None ELSE Some(MinKey(DOMAIN side))

top == <<FirstKey(bids), FirstKey(asks)>>

\* a test that takes an absent opposing best price to be crossed
crossesAbsent(price, kind) ==
    IF kind = "Bid"
    THEN top[2] = None \/ price >= top[2][1]
    ELSE top[1] = None \/ price <= top[1][1]

crosses(price, kind) ==
    IF kind = "Bid"
    THEN top[2] # None /\ price >= top[2][1]
    ELSE top[1] # None /\ price <= top[1][1]

crossed ==
    IF top[1] # None /\ top[2] # None THEN top[2][1] > top[1][1] ELSE FALSE

\* the levels of `side` holding an order with this id, ascending
LevelsWith(side, id) == {p \in DOMAIN side : Position(side[p], id) # 0}

\* a lookup that takes the first bid whose id is not above the one asked for
OrderOfBelow(id) ==
    LET found == {p \in DOMAIN bids :
                     \E i \in 1..Len(bids[p]) : bids[p][i].id <= id}
    IN  IF found = {} THEN None
        ELSE LET p == MinKey(found)
             IN  Some(bids[p][CHOOSE i \in 1..Len(bids[p]) :
                                 /\ bids[p][i].id <= id
                                 /\ \A j \in 1..(i - 1) : bids[p][j].id > id])

\* Book::order: only the bid side is searched
OrderOf(id) ==
    IF LevelsWith(bids, id) = {} THEN None
    ELSE LET p == MinKey(LevelsWith(bids, id))
         IN  Some(bids[p][Position(bids[p], id)])

\* ---------------------------------------------------------------- removal

\* the part of remove_order that edits one side: the first level (ascending)
\* holding the id loses the first order with that id; the level stays
RemoveFrom(side, id) ==
    IF LevelsWith(side, id) = {} THEN side
    ELSE LET p == MinKey(LevelsWith(side, id))
         IN  [side EXCEPT ![p] = RemoveAt(@, Position(@, id))]

\* remove_order: the bid branch drops its read guard before writing; the ask
\* branch requests the write lock of asks while its read guard is alive, so
\* a hit on the ask side never gets the lock
remove_order(b, a, id) ==
    [bids |-> RemoveFrom(b, id), stuck |-> LevelsWith(a, id) # {}]

RECURSIVE RemoveAll(_, _, _)
\* removals.iter().for_each(|oid| self.remove_order(*oid))
RemoveAll(b, a, ids) ==
    IF ids = <<>> THEN [bids |-> b, stuck |-> FALSE]
    ELSE LET r == remove_order(b, a, Head(ids))
         IN  IF r.stuck THEN r ELSE RemoveAll(r.bids, a, Tail(ids))

\* a filter that keeps the lowest empty level only
FirstEmptyKey(side) ==
    LET empty == {p \in DOMAIN side : side[p] = <<>>}
    IN  IF empty = {} THEN {} ELSE {MinKey(empty)}

EmptyKeys(side) == {p \in DOMAIN side : side[p] = <<>>}

\* prune, as a function of the sides and the removal list: remove_order for
\* every id in removals, clear removals, drop the levels left empty on both
\* sides.  When a remove_order is stuck on the ask side nothing after it is
\* executed.  prune writes to bids, asks and removals only.
prune(b, a, ids) ==
    LET r == RemoveAll(b, a, ids)
    IN  IF r.stuck
        THEN [bids |-> r.bids, asks |-> a, removals |-> ids, stuck |-> TRUE]
        ELSE [bids |-> RemoveKeys(r.bids, EmptyKeys(r.bids)),
              asks |-> RemoveKeys(a, EmptyKeys(a)),
              removals |-> <<>>, stuck |-> FALSE]

\* ------------------------------------------------------------------- init

\* The thread of the clone while it runs no call.  The fields are the
\* position of its add and the locals of add, match and reduce_depth: the
\* incoming order, the levels still to be visited, the local ltp and
\* quantity_remaining, the incumbent and arm of the iteration under way, and
\* reduce_depth's curr_depth and reduction.
OtherIdle ==
    [pc |-> "idle", order |-> None, opposing_side |-> <<>>,
     match_ltp |-> None, quantity_remaining |-> 0, incumbent |-> None,
     arm |-> "", curr_depth |-> <<0, 0>>, reduction |-> 0]

\* Book::new of the legacy book: no orders, no levels, nothing traded
LegacyNew ==
    [orders |-> <<>>, bids |-> <<>>, asks |-> <<>>, ltp |-> 0,
     has_traded |-> FALSE]

Init ==
    /\ bids = <<>>
    /\ asks = <<>>
    /\ events = <<>>
    /\ ltp = None
    /\ depth = <<0, 0>>
    /\ removals = <<>>
    /\ wrapped = FALSE
    /\ pc = "idle"
    /\ order = None
    /\ opposing_side = <<>>
    /\ match_ltp = None
    /\ quantity_remaining = 0
    /\ submitted = 0
    /\ last_call = "new"
    /\ now = 0
    /\ timestamps = <<>>
    /\ other = OtherIdle
    /\ legacy = LegacyNew

\* ---------------------------------------------------------------- actions

\* Whether this overflowing operation is compiled with overflow checks.  A
\* build with checks panics at its first overflow, so a run in which nothing
\* has wrapped yet is a run of either build, and a run in which something
\* has wrapped is a run of a build without checks.
Checks == IF wrapped THEN {FALSE} ELSE BOOLEAN

\* the component of depth an incoming order of this kind is matched against
Opposing(kind) == IF kind = "Bid" THEN 2 ELSE 1

\* an add_order that credits the quantity to the other side's depth
add_orderOpposingDepth(o) ==
    LET own == IF o.kind = "Bid" THEN 2 ELSE 1
        overflows == AddOverflows(depth[own], o.quantity)
    IN  /\ bids' = IF o.kind = "Bid" THEN Insert(bids, o) ELSE bids
        /\ asks' = IF o.kind = "Ask" THEN Insert(asks, o) ELSE asks
        /\ \E checked \in Checks :
              IF overflows /\ checked
              THEN /\ pc' = "panicked"
                   /\ UNCHANGED <<depth, events, timestamps, wrapped>>
              ELSE /\ depth' = [depth EXCEPT ![own] = @ + o.quantity]
                   /\ events' = Push(events, PostEvent(o))
                   /\ timestamps' = Append(timestamps, now)
                   /\ wrapped' = (wrapped \/ overflows)
                   /\ pc' = "idle"
        /\ UNCHANGED <<ltp, removals, order, opposing_side, match_ltp,
                       quantity_remaining>>

\* add_order: push_back on the order's level, depth += quantity, Post event
add_order(o) ==
    LET own == IF o.kind = "Bid" THEN 1 ELSE 2
        overflows == AddOverflows(depth[own], o.quantity)
    IN  /\ bids' = IF o.kind = "Bid" THEN Insert(bids, o) ELSE bids
        /\ asks' = IF o.kind = "Ask" THEN Insert(asks, o) ELSE asks
        /\ \E checked \in Checks :
              IF overflows /\ checked
              THEN /\ pc' = "panicked"
                   /\ UNCHANGED <<depth, events, timestamps, wrapped>>
              ELSE /\ depth' = [depth EXCEPT ![own] = @ + o.quantity]
                   /\ events' = Push(events, PostEvent(o))
                   /\ timestamps' = Append(timestamps, now)
                   /\ wrapped' = (wrapped \/ overflows)
                   /\ pc' = "idle"
        /\ UNCHANGED <<ltp, removals, order, opposing_side, match_ltp,
                       quantity_remaining>>

\* add: post when the price does not cross, otherwise enter match with the
\* opposing side's levels in iter_mut().rev() order
Add(kind, price, quantity) ==
    LET o == PlainOrder(submitted + 1, kind, price, quantity)
    IN  /\ pc = "idle"
        /\ submitted' = submitted + 1
        /\ last_call' = "add"
        /\ IF ~crosses(o.price, o.kind)
           THEN add_order(o)
           ELSE /\ order' = Some(o)
                /\ opposing_side' =
                      Descending(DOMAIN (IF kind = "Bid" THEN asks ELSE bids))
                /\ match_ltp' = Some(o.price)
                /\ quantity_remaining' = o.quantity
                /\ pc' = "match"
                /\ UNCHANGED <<bids, asks, events, timestamps, ltp, depth,
                               removals, wrapped>>
        /\ UNCHANGED elsewhere

\* the side an incoming order is matched against
OpposingBook == IF order[1].kind = "Bid" THEN asks ELSE bids

RECURSIVE NextIncumbentAnyPrice(_)
\* a loop control that follows the levels beyond the order's price
NextIncumbentAnyPrice(levels) ==
    IF levels = <<>> THEN <<>>
    ELSE IF quantity_remaining = 0 THEN <<>>
    ELSE IF OpposingBook[Head(levels)] = <<>>
    THEN NextIncumbentAnyPrice(Tail(levels))
    ELSE levels

RECURSIVE NextIncumbent(_)
\* Loop control of match between two iterations, for the levels still to be
\* visited (the head is the level the while loop is at): the for loop is
\* left when the levels are exhausted, when nothing remains to fill or at a
\* level above the order's price; the while loop is left, for the next
\* level, when the level's queue is empty.  The result starts with the level
\* of the next incumbent, or is empty when the for loop is left.
NextIncumbent(levels) ==
    IF levels = <<>> THEN <<>>
    ELSE IF quantity_remaining = 0 THEN <<>>
    ELSE IF ~(Head(levels) <= order[1].price) THEN <<>>
    ELSE IF OpposingBook[Head(levels)] = <<>> THEN NextIncumbent(Tail(levels))
    ELSE levels

\* the three arms of `match incumbent_quantity.cmp(&quantity_remaining)`:
\* what the arm leaves in the incumbent's quantity, in quantity_remaining and
\* in the opposing depth, whether it pushed the id to removals, whether an
\* overflow check stopped it half-way and whether a subtraction wrapped
MatchArm(iq, d, checked) ==
    LET oq == order[1].quantity
        qr == quantity_remaining
    IN  IF U64Less(qr, iq)
        THEN IF checked /\ SubOverflows(iq, oq)
             THEN [panicked |-> TRUE, match |-> "Partial", quantity |-> iq,
                   remaining |-> qr, depth |-> d, marked |-> FALSE,
                   wrapped |-> FALSE]
             ELSE IF checked /\ SubOverflows(d, oq)
             THEN [panicked |-> TRUE, match |-> "Partial",
                   quantity |-> iq - oq, remaining |-> 0, depth |-> d,
                   marked |-> FALSE, wrapped |-> FALSE]
             ELSE [panicked |-> FALSE, match |-> "Partial",
                   quantity |-> iq - oq, remaining |-> 0, depth |-> d - oq,
                   marked |-> FALSE,
                   wrapped |-> SubOverflows(iq, oq) \/ SubOverflows(d, oq)]
        ELSE IF iq = qr
        THEN IF checked /\ SubOverflows(d, iq)
             THEN [panicked |-> TRUE, match |-> "Full", quantity |-> iq,
                   remaining |-> qr - iq, depth |-> d, marked |-> FALSE,
                   wrapped |-> FALSE]
             ELSE [panicked |-> FALSE, match |-> "Full", quantity |-> iq,
                   remaining |-> qr - iq, depth |-> d - iq, marked |-> TRUE,
                   wrapped |-> SubOverflows(d, iq)]
        ELSE IF checked /\ SubOverflows(d, iq)
             THEN [panicked |-> TRUE, match |-> "Full", quantity |-> iq,
                   remaining |-> qr - iq, depth |-> d, marked |-> TRUE,
                   wrapped |-> FALSE]
             ELSE [panicked |-> FALSE, match |-> "Full", quantity |-> iq,
                   remaining |-> qr - iq, depth |-> d - iq, marked |-> TRUE,
                   wrapped |-> SubOverflows(d, iq)]

\* `orders.iter_mut().next()`: the order the while loop takes as incumbent
Incumbent(orders) == Head(orders)

\* match, one iteration of `while let Some(incumbent) = orders.iter_mut().next()`
\* that finds quantity_remaining > 0
MatchStep ==
    /\ pc = "match"
    /\ NextIncumbent(opposing_side) # <<>>
    /\ Len(events) < MaxEvents
    /\ LET o == order[1]
           level == Head(NextIncumbent(opposing_side))
           incumbent == Incumbent(OpposingBook[level])
       IN  \E checked \in Checks :
             LET r == MatchArm(incumbent.quantity, depth[Opposing(o.kind)],
                               checked)
                 side == [OpposingBook EXCEPT ![level] =
                            [@ EXCEPT ![1] =
                               [@ EXCEPT !.quantity = r.quantity]]]
             IN  /\ events' = Push(events,
                                MatchEvent(r.match, incumbent, o, o.quantity))
                 /\ bids' = IF o.kind = "Ask" THEN side ELSE bids
                 /\ asks' = IF o.kind = "Bid" THEN side ELSE asks
                 /\ quantity_remaining' = r.remaining
                 /\ depth' = [depth EXCEPT ![Opposing(o.kind)] = r.depth]
                 /\ removals' = IF r.marked
                                THEN Append(removals, incumbent.id)
                                ELSE removals
                 /\ match_ltp' = IF r.panicked THEN match_ltp
                                 ELSE Some(incumbent.price)
                 /\ wrapped' = (wrapped \/ r.wrapped)
                 /\ pc' = IF r.panicked THEN "panicked" ELSE "match"
    /\ timestamps' = Append(timestamps, now)
    /\ opposing_side' = NextIncumbent(opposing_side)
    /\ UNCHANGED <<ltp, order, submitted, last_call>>
    /\ UNCHANGED elsewhere

\* a store that keeps the price of completely filled orders only
StoreLtpWhenFilled(local) == IF quantity_remaining = 0 THEN local ELSE None

\* `*self.ltp.write() = Some(ltp)` at the end of match: the local ltp is
\* stored whatever the loop did
StoreLtp(local) == local

\* The for loop of match is left: the local ltp is stored and add goes on to
\* prune: remove_order for every id in removals, clear removals, drop the
\* levels left empty.  A remove_order that finds its id on the ask side
\* write-locks asks under its own read guard: the call blocks for ever or,
\* where the platform detects it, panics.
Prune ==
    /\ pc = "match"
    /\ NextIncumbent(opposing_side) = <<>>
    /\ ltp' = StoreLtp(match_ltp)
    /\ LET r == prune(bids, asks, removals)
       IN  IF r.stuck
           THEN /\ bids' = r.bids
                /\ pc' \in {"blocked", "panicked"}
                /\ UNCHANGED <<asks, removals, order, opposing_side,
                               match_ltp, quantity_remaining>>
           ELSE /\ bids' = r.bids
                /\ asks' = r.asks
                /\ removals' = r.removals
                /\ pc' = "idle"
                /\ order' = None
                /\ opposing_side' = <<>>
                /\ match_ltp' = None
                /\ quantity_remaining' = 0
    /\ UNCHANGED <<events, timestamps, depth, wrapped, submitted, last_call>>
    /\ UNCHANGED elsewhere

\* cancel: look the order up (Book::order), journal it, remove_order
Cancel(order_id) ==
    /\ pc = "idle"
    /\ last_call' = "cancel"
    /\ IF OrderOf(order_id) = None
       THEN UNCHANGED <<bids, events, timestamps, pc>>
       ELSE LET r == remove_order(bids, asks, order_id)
            IN  /\ events' = Push(events, CancelEvent(OrderOf(order_id)[1]))
                /\ timestamps' = Append(timestamps, now)
                /\ bids' = r.bids
                /\ pc' \in IF r.stuck THEN {"blocked", "panicked"}
                           ELSE {"idle"}
    /\ UNCHANGED <<asks, ltp, depth, removals, wrapped, order, opposing_side,
                   match_ltp, quantity_remaining, submitted>>
    /\ UNCHANGED elsewhere

Next ==
    \/ \E kind \in OrderKind, price \in Prices, quantity \in Quantities :
          /\ submitted < MaxOrders
          /\ Add(kind, price, quantity)
    \/ \E order_id \in 1..MaxOrders : Cancel(order_id)
    \/ MatchStep
    \/ Prune

Spec == Init /\ [][Next]_vars

\* the engine driven by a producer with fewer prices and quantities
NextSmall ==
    \/ \E kind \in OrderKind, price \in 1..SmallPrice,
          quantity \in 0..SmallQty :
          /\ submitted < SmallOrders
          /\ Add(kind, price, quantity)
    \/ \E order_id \in 1..SmallOrders : Cancel(order_id)
    \/ MatchStep
    \/ Prune

SmallSpec == Init /\ [][NextSmall]_vars

\* the engine driven by a producer of positive quantities at several prices
NextWide ==
    \/ \E kind \in OrderKind, price \in 1..WidePrice,
          quantity \in 1..WideQty :
          /\ submitted < WideOrders
          /\ Add(kind, price, quantity)
    \/ \E order_id \in 1..WideOrders : Cancel(order_id)
    \/ MatchStep
    \/ Prune

WideSpec == Init /\ [][NextWide]_vars

\* the engine driven by a producer of larger quantities at one price
NextDeep ==
    \/ \E kind \in OrderKind, quantity \in 1..DeepQty :
          /\ submitted < DeepOrders
          /\ Add(kind, 1, quantity)
    \/ \E order_id \in 1..DeepOrders : Cancel(order_id)
    \/ MatchStep
    \/ Prune

DeepSpec == Init /\ [][NextDeep]_vars

\* the six orders of the deep-cross scenario, prices in units of 0.50
DeepCross ==
    << [kind |-> "Bid", price |-> 20, quantity |-> 120],
       [kind |-> "Bid", price |-> 20, quantity |-> 300],
       [kind |-> "Bid", price |-> 30, quantity |-> 300],
       [kind |-> "Ask", price |-> 32, quantity |-> 100],
       [kind |-> "Ask", price |-> 41, quantity |-> 230],
       [kind |-> "Ask", price |-> 7, quantity |-> 1000] >>

\* the engine driven by a producer that submits orders of the deep-cross
\* scenario, in any order
NextDeepCross ==
    \/ \E i \in 1..Len(DeepCross) :
          /\ submitted < Len(DeepCross)
          /\ Add(DeepCross[i].kind, DeepCross[i].price, DeepCross[i].quantity)
    \/ MatchStep
    \/ Prune

DeepCrossSpec == Init /\ [][NextDeepCross]_vars

\* ------------------------------------------------- add on a clone's thread

\* A clone shares events, bids, asks, ltp, depth and removals with the book
\* it was cloned from (every field is an Arc); its add runs in another thread
\* and is followed lock by lock.  The clone's add evaluates crosses, which
\* read-locks both sides and so waits while the other handle is in match; an
\* order that does not cross is posted, one that crosses goes on to request
\* the write lock of the opposing side.
OtherDecide(kind, price, quantity) ==
    LET o == PlainOrder(submitted + 1, kind, price, quantity)
    IN  /\ other.pc = "idle"
        /\ pc = "idle"
        /\ submitted' = submitted + 1
        /\ IF ~crosses(o.price, o.kind)
           THEN /\ add_order(o)
                /\ other' = other
           ELSE /\ other' = [other EXCEPT !.pc = "decided", !.order = Some(o)]
                /\ UNCHANGED <<bids, asks, events, timestamps, ltp, depth,
                               removals, wrapped, pc, order, opposing_side,
                               match_ltp, quantity_remaining>>
        /\ UNCHANGED <<last_call, now, legacy>>

\* the clone's add gets the write lock of the opposing side, which it waits
\* for while the other handle is matching against the same side, and calls
\* match with the side's iter_mut().rev()
OtherLock ==
    /\ other.pc = "decided"
    /\ \/ pc = "idle"
       \/ pc = "match" /\ order[1].kind # other.order[1].kind
    /\ LET o == other.order[1]
       IN  other' = [other EXCEPT
              !.pc = "match",
              !.opposing_side =
                  Descending(DOMAIN (IF o.kind = "Bid" THEN asks ELSE bids)),
              !.match_ltp = Some(o.price),
              !.quantity_remaining = o.quantity]
    /\ UNCHANGED <<bids, asks, events, ltp, depth, removals, wrapped, pc,
                   order, opposing_side, match_ltp, quantity_remaining,
                   submitted, last_call, now, timestamps, legacy>>

\* the side the clone's incoming order is matched against
OtherBook == IF other.order[1].kind = "Bid" THEN asks ELSE bids

RECURSIVE OtherNextIncumbent(_)
\* loop control of the clone's match between two iterations
OtherNextIncumbent(levels) ==
    IF levels = <<>> THEN <<>>
    ELSE IF other.quantity_remaining = 0 THEN <<>>
    ELSE IF ~(Head(levels) <= other.order[1].price) THEN <<>>
    ELSE IF OtherBook[Head(levels)] = <<>>
    THEN OtherNextIncumbent(Tail(levels))
    ELSE levels

\* One iteration of the clone's match loop up to reduce_depth's
\* `let curr_depth = *self.depth.read().unwrap()`: the Match event is pushed,
\* the Greater arm lowers the incumbent's quantity by order.quantity(), the
\* Less arm pushes the incumbent's id to removals, quantity_remaining is
\* lowered and depth is read.  The read guard is gone at the end of that
\* statement, so the other thread can run before depth is written.
OtherMatchRead ==
    /\ other.pc = "match"
    /\ pc \in {"idle", "match"}
    /\ OtherNextIncumbent(other.opposing_side) # <<>>
    /\ Len(events) < MaxEvents
    /\ LET o == other.order[1]
           qr == other.quantity_remaining
           level == Head(OtherNextIncumbent(other.opposing_side))
           incumbent == Incumbent(OtherBook[level])
           iq == incumbent.quantity
           arm == IF U64Less(qr, iq) THEN "Greater"
                  ELSE IF iq = qr THEN "Equal" ELSE "Less"
           kept == IF arm = "Greater" THEN iq - o.quantity ELSE iq
           side == [OtherBook EXCEPT ![level] =
                      [@ EXCEPT ![1] = [@ EXCEPT !.quantity = kept]]]
           overflows == arm = "Greater" /\ SubOverflows(iq, o.quantity)
       IN  /\ events' = Push(events,
                   MatchEvent(IF arm = "Greater" THEN "Partial" ELSE "Full",
                              incumbent, o, o.quantity))
           /\ timestamps' = Append(timestamps, now)
           /\ \E checked \in Checks :
                 IF overflows /\ checked
                 THEN /\ other' = [other EXCEPT !.pc = "panicked"]
                      /\ UNCHANGED <<bids, asks, removals, wrapped>>
                 ELSE /\ bids' = IF o.kind = "Ask" THEN side ELSE bids
                      /\ asks' = IF o.kind = "Bid" THEN side ELSE asks
                      /\ removals' = IF arm = "Less"
                                     THEN Append(removals, incumbent.id)
                                     ELSE removals
                      /\ wrapped' = (wrapped \/ overflows)
                      /\ other' = [other EXCEPT
                            !.pc = "write",
                            !.opposing_side =
                                OtherNextIncumbent(other.opposing_side),
                            !.quantity_remaining =
                                IF arm = "Greater" THEN 0 ELSE qr - iq,
                            !.incumbent = Some(incumbent),
                            !.arm = arm,
                            !.curr_depth = depth,
                            !.reduction =
                                IF arm = "Greater" THEN o.quantity ELSE iq]
    /\ UNCHANGED <<ltp, depth, pc, order, opposing_side, match_ltp,
                   quantity_remaining, submitted, last_call, now, legacy>>

\* The rest of the iteration: reduce_depth writes the whole tuple computed
\* from the curr_depth it read, the Equal arm pushes the incumbent's id to
\* removals and the local ltp takes the incumbent's price.
OtherDepthWrite ==
    /\ other.pc = "write"
    /\ pc \in {"idle", "match"}
    /\ LET c == Opposing(other.order[1].kind)
           overflows == SubOverflows(other.curr_depth[c], other.reduction)
       IN  \E checked \in Checks :
             IF overflows /\ checked
             THEN /\ other' = [other EXCEPT !.pc = "panicked"]
                  /\ UNCHANGED <<depth, removals, wrapped>>
             ELSE /\ depth' = [other.curr_depth EXCEPT
                                  ![c] = @ - other.reduction]
                  /\ removals' = IF other.arm = "Equal"
                                 THEN Append(removals, other.incumbent[1].id)
                                 ELSE removals
                  /\ wrapped' = (wrapped \/ overflows)
                  /\ other' = [other EXCEPT
                        !.pc = "match",
                        !.match_ltp = Some(other.incumbent[1].price),
                        !.incumbent = None,
                        !.arm = "",
                        !.curr_depth = <<0, 0>>,
                        !.reduction = 0]
    /\ UNCHANGED <<bids, asks, events, timestamps, ltp, pc, order,
                   opposing_side, match_ltp, quantity_remaining, submitted,
                   last_call, now, legacy>>

\* The clone's match loop is left: the write lock is released, the local ltp
\* is stored and add calls prune, whose read locks are waited for while the
\* other handle is in match.
OtherPrune ==
    /\ other.pc = "match"
    /\ pc = "idle"
    /\ OtherNextIncumbent(other.opposing_side) = <<>>
    /\ ltp' = StoreLtp(other.match_ltp)
    /\ LET r == prune(bids, asks, removals)
       IN  IF r.stuck
           THEN /\ bids' = r.bids
                /\ \E stop \in {"blocked", "panicked"} :
                      other' = [other EXCEPT !.pc = stop]
                /\ UNCHANGED <<asks, removals>>
           ELSE /\ bids' = r.bids
                /\ asks' = r.asks
                /\ removals' = r.removals
                /\ other' = OtherIdle
    /\ UNCHANGED <<events, timestamps, depth, wrapped, pc, order,
                   opposing_side, match_ltp, quantity_remaining, submitted,
                   last_call, now, legacy>>

\* the clone's thread holds no lock of a side and has not stopped
OtherQuiet == other.pc \in {"idle", "decided"}

\* two handles of one book, each driven by its own producer thread
NextConc ==
    \/ \E kind \in OrderKind, price \in 1..ConcPrice,
          quantity \in 1..ConcQty :
          /\ submitted < ConcOrders
          /\ OtherQuiet
          /\ Add(kind, price, quantity)
    \/ /\ other.pc \notin {"blocked", "panicked"}
       /\ MatchStep
    \/ /\ OtherQuiet
       /\ Prune
    \/ \E kind \in OrderKind, price \in 1..ConcPrice,
          quantity \in 1..ConcQty :
          /\ submitted < ConcOrders
          /\ OtherDecide(kind, price, quantity)
    \/ OtherLock
    \/ OtherMatchRead
    \/ OtherDepthWrite
    \/ OtherPrune

ConcSpec == Init /\ [][NextConc]_vars

\* --------------------------------------------------- legacy Book (book.rs)

\* an Order of order.rs, without its owner's account and its dates
LegacyOrder(id, order_type, price, quantity) ==
    [id |-> id, order_type |-> order_type, price |-> price,
     quantity |-> quantity]

\* orders.remove(&id)
LegacyRemove(orders, id) == [i \in DOMAIN orders \ {id} |-> orders[i]]

\* orders.insert(id, order)
LegacyInsert(orders, o) ==
    [i \in DOMAIN orders \cup {o.id} |-> IF i = o.id THEN o ELSE orders[i]]

\* get_order: the entry of the orders map, or OrderNotFound
get_order(id) ==
    IF id \in DOMAIN legacy.orders THEN Some(legacy.orders[id]) ELSE None

RECURSIVE LegacyQueue(_, _, _)
\* `for counter_order in level_orders.iter_mut()`: a smaller counterparty
\* order is taken out of the orders map and the loop goes on; an equal one
\* is taken out and the loop is left with matched set; a larger one sets
\* matched and leaves the loop.  No queue and no quantity is changed.
LegacyQueue(queue, orders, order_quantity) ==
    IF queue = <<>> THEN [orders |-> orders, matched |-> FALSE]
    ELSE LET counter_order == Head(queue)
         IN  IF counter_order.quantity < order_quantity
             THEN LegacyQueue(Tail(queue),
                              LegacyRemove(orders, counter_order.id),
                              order_quantity)
             ELSE IF counter_order.quantity = order_quantity
             THEN [orders |-> LegacyRemove(orders, counter_order.id),
                   matched |-> TRUE]
             ELSE [orders |-> orders, matched |-> TRUE]

RECURSIVE LegacyLevels(_, _, _, _)
\* `for (level_price, level_orders) in <opposing side>.iter_mut()`, over the
\* levels ks in ascending order: the levels with level_price <= order_price
\* are walked, for both order types; only the Bid branch leaves the outer
\* loop once matched is set
LegacyLevels(side, ks, o, orders) ==
    IF ks = {} THEN [orders |-> orders, matched |-> FALSE]
    ELSE LET p == MinKey(ks)
             r == IF p <= o.price THEN LegacyQueue(side[p], orders, o.quantity)
                  ELSE [orders |-> orders, matched |-> FALSE]
             rest == LegacyLevels(side, ks \ {p}, o, r.orders)
         IN  IF r.matched /\ o.order_type = "Bid" THEN r
             ELSE [orders |-> rest.orders,
                   matched |-> r.matched \/ rest.matched]

\* the matching part of submit: the orders map it leaves and `matched`
LegacyMatch(o) ==
    IF o.order_type = "Bid"
    THEN LegacyLevels(legacy.asks, DOMAIN legacy.asks, o, legacy.orders)
    ELSE LegacyLevels(legacy.bids, DOMAIN legacy.bids, o, legacy.orders)

\* `bids.insert(price, VecDeque::from_iter(vec![]))` when the key is absent
LegacyLevel(side, price) ==
    [p \in DOMAIN side \cup {price} |->
        IF p \in DOMAIN side THEN side[p] ELSE <<>>]

\* submit: the opposing side is walked; when nothing matched the order is
\* inserted into the orders map and an empty queue is created for its price
\* on its own side when the side has none
submit(o) ==
    LET r == LegacyMatch(o)
    IN  /\ legacy' =
              IF r.matched THEN [legacy EXCEPT !.orders = r.orders]
              ELSE [legacy EXCEPT
                      !.orders = LegacyInsert(r.orders, o),
                      !.bids = IF o.order_type = "Bid"
                               THEN LegacyLevel(@, o.price) ELSE @,
                      !.asks = IF o.order_type = "Ask"
                               THEN LegacyLevel(@, o.price) ELSE @]
        /\ UNCHANGED <<bids, asks, events, ltp, depth, removals, wrapped, pc,
                       order, opposing_side, match_ltp, quantity_remaining,
                       submitted, last_call, now, timestamps, other>>

\* the legacy Book driven by a producer of orders
NextLegacy ==
    \E id \in 1..LegacyOrders, order_type \in OrderKind,
       price \in 1..LegacyPrice, quantity \in 1..LegacyQty :
       submit(LegacyOrder(id, order_type, price, quantity))

LegacySpec == Init /\ [][NextLegacy]_vars

\* The system clock behind Utc::now() is the wall clock: it advances, and it
\* is set back when the system time is corrected.
ClockMoves ==
    /\ now' \in (0..MaxClock) \ {now}
    /\ UNCHANGED <<bids, asks, events, ltp, depth, removals, wrapped, pc,
                   order, opposing_side, match_ltp, quantity_remaining,
                   submitted, last_call, timestamps, other, legacy>>

\* the engine under the narrow producer, with a system clock that moves
NextClock ==
    \/ \E kind \in OrderKind, price \in 1..SmallPrice,
          quantity \in 0..SmallQty :
          /\ submitted < ClockOrders
          /\ Add(kind, price, quantity)
    \/ \E order_id \in 1..ClockOrders : Cancel(order_id)
    \/ MatchStep
    \/ Prune
    \/ ClockMoves

ClockSpec == Init /\ [][NextClock]_vars

\* ------------------------------------------------------ claim vocabulary

\* the orders resting on a side
Resting(side) ==
    UNION {{side[p][i] : i \in 1..Len(side[p])} : p \in DOMAIN side}

RECURSIVE SumQuantity(_)
\* xs.iter().map(|x| x.quantity()).sum() over one level
SumQuantity(level) ==
    IF level = <<>> THEN 0
    ELSE Head(level).quantity + SumQuantity(Tail(level))

RECURSIVE SideQuantity(_, _)
\* the quantities of all orders resting on a side, over the levels ks
SideQuantity(side, ks) ==
    IF ks = {} THEN 0
    ELSE LET p == MinKey(ks)
         IN  SumQuantity(side[p]) + SideQuantity(side, ks \ {p})

\* the prices at which a side has at least one resting order
RestingPrices(side) == {p \in DOMAIN side : side[p] # <<>>}

\* a public call has returned normally
Returned(calls) == pc = "idle" /\ last_call \in calls

\* this step appended a Match event to the journal
MatchEmitted ==
    /\ Len(events') = Len(events) + 1
    /\ events'[Len(events')].kind = "Match"

\* a resting order at price p is strictly better priced than one at price q
\* (lower for asks, higher for bids)
BetterPrice(kind, p, q) == IF kind = "Ask" THEN p < q ELSE p > q

\* a resting order's price is within the incoming order's limit
WithinLimit(incoming, p) ==
    IF incoming.kind = "Bid" THEN p <= incoming.price ELSE p >= incoming.price

\* the positions of the journal's Match events
MatchEvents == {i \in 1..Len(events) : events[i].kind = "Match"}

\* the events the add of the order with this id appended: its Post event and
\* the Match events it is the incoming order of
EventsOfAdd(id) ==
    SelectSeq(events, LAMBDA e :
        \/ e.kind = "Post" /\ e.order.id = id
        \/ e.kind = "Match" /\ e.others[1][1].id = id)

\* the events of the add entered last (ids are issued in arrival order)
AddEvents == EventsOfAdd(submitted)

\* match is about to take the first incumbent of the running add
AboutToMeet ==
    /\ pc = "match"
    /\ AddEvents = <<>>
    /\ NextIncumbent(opposing_side) # <<>>

\* the incumbent the next iteration of the match loop takes
Met == Incumbent(OpposingBook[Head(NextIncumbent(opposing_side))])

\* the add entered last has left the match loop having filled something
LeftLoop ==
    /\ last_call = "add"
    /\ pc # "match"
    /\ AddEvents # <<>>
    /\ AddEvents[1].kind = "Match"

\* the side an incoming order of this kind would rest on
OwnBook(kind) == IF kind = "Bid" THEN bids ELSE asks

\* this step leaves the side an order of this kind would rest on as it is
OwnBookUnchanged(kind) == IF kind = "Bid" THEN bids' = bids ELSE asks' = asks

\* C1: price priority - no order is the incumbent of a Match event while a
\* strictly better-priced order of its side, within the incoming order's
\* limit, still rests unmatched
PricePriority ==
    [][MatchEmitted =>
         LET incumbent == events'[Len(events')].incumbent
         IN  ~ \E r \in Resting(OpposingBook) :
                 /\ BetterPrice(r.kind, r.price, incumbent.price)
                 /\ WithinLimit(order[1], r.price)
                 /\ r.quantity # 0
                 /\ \A i \in 1..Len(removals) : removals[i] # r.id]_vars

\* the Match events of the journal take the orders of one level in the order
\* in which they were added (ids are issued in arrival order)
JournalFifo ==
    \A i, j \in 1..Len(events) :
        /\ i < j
        /\ events[i].kind = "Match"
        /\ events[j].kind = "Match"
        /\ events[i].incumbent.kind = events[j].incumbent.kind
        /\ events[i].incumbent.price = events[j].incumbent.price
        => events[i].incumbent.id <= events[j].incumbent.id

\* C2: time priority - of two orders resting at the same price on the same
\* side the earlier one is matched first, and no order is the incumbent of a
\* Match event while an order added earlier at its level still rests with
\* positive quantity
TimePriority ==
    /\ []JournalFifo
    /\ [][MatchEmitted =>
            LET incumbent == events'[Len(events')].incumbent
                level == OpposingBook[incumbent.price]
            IN  \A i \in 1..Len(level) :
                    level[i].id < incumbent.id => level[i].quantity = 0]_vars

\* C2 witness: an order was matched while a later order, already added by
\* then, rested behind it at the same price
TimePriorityWitness ==
    \E i \in 1..Len(events) :
        /\ events[i].kind = "Match"
        /\ \E r \in Resting(bids) \cup Resting(asks) :
              /\ r.kind = events[i].incumbent.kind
              /\ r.price = events[i].incumbent.price
              /\ r.id > events[i].incumbent.id
              /\ r.id < events[i].others[1][1].id

\* C3: depth consistency - after add and after cancel return, each component
\* of depth is the sum of the quantities resting on its side
DepthConsistency ==
    Returned({"add", "cancel"}) =>
        /\ depth[1] = SideQuantity(bids, DOMAIN bids)
        /\ depth[2] = SideQuantity(asks, DOMAIN asks)

\* C4: add never leaves the book crossed - after add returns one side has no
\* resting order or the lowest resting ask is above the highest resting bid
NeverCrossedByAdd ==
    Returned({"add"}) =>
        \/ RestingPrices(bids) = {}
        \/ RestingPrices(asks) = {}
        \/ MinKey(RestingPrices(asks)) > MaxKey(RestingPrices(bids))

\* C5: after add returns, the query crossed() answers false
CrossedIsFalseAfterAdd == Returned({"add"}) => ~crossed

\* C6: no empty levels - after add and after cancel return, no price key of
\* either side maps to an empty queue
NoEmptyLevels ==
    Returned({"add", "cancel"}) =>
        /\ \A p \in DOMAIN bids : bids[p] # <<>>
        /\ \A p \in DOMAIN asks : asks[p] # <<>>

\* C7: no zero-quantity resting orders - after add and after cancel return,
\* every resting order has quantity > 0
NoZeroQuantityResting ==
    Returned({"add", "cancel"}) =>
        \A r \in Resting(bids) \cup Resting(asks) : r.quantity # 0

\* C8: termination - no call blocks, and every iteration of the match loop
\* that stays in the loop has reduced the quantity still to fill
CallsTerminate ==
    /\ [](pc # "blocked")
    /\ [][pc = "match" /\ pc' = "match" =>
            U64Less(quantity_remaining', quantity_remaining)]_vars

\* C9: top() is (largest bid key, smallest ask key)
TopIsBestBidBestAsk ==
    pc = "idle" =>
        /\ DOMAIN bids # {} => top[1] = Some(MaxKey(DOMAIN bids))
        /\ DOMAIN asks # {} => top[2] = Some(MinKey(DOMAIN asks))

\* C10: top() reports a side absent exactly when no order rests on it
TopAbsentIffSideEmpty ==
    Returned({"add", "cancel"}) =>
        /\ top[1] = None <=> Resting(bids) = {}
        /\ top[2] = None <=> Resting(asks) = {}

\* C11: ltp() is absent as long as the journal holds no Match event, and
\* after add returns it is the price of the incumbent of the most recent
\* Match event of the journal
LtpIsLastMatchPrice ==
    /\ MatchEvents = {} => ltp = None
    /\ Returned({"add"}) /\ MatchEvents # {} =>
          ltp = Some(events[MaxKey(MatchEvents)].incumbent.price)

\* C12: once ltp() is a price it is a price after every later step of add
\* and cancel; it never reverts to absent
LtpNeverReverts == [][ltp # None => ltp' # None]_vars

\* C12 witness: a cancel that found its order has returned with a last
\* traded price set by an earlier add
LtpNeverRevertsWitness ==
    /\ Returned({"cancel"})
    /\ ltp # None
    /\ events # <<>>
    /\ events[Len(events)].kind = "Cancel"

\* C13: exact fill on either side - an add whose first incumbent has the
\* incoming order's quantity returns having emitted exactly one Match(Full)
\* event for that incumbent with that quantity; the incumbent, and its level
\* if emptied, are gone from the book, the opposing depth is lower by the
\* quantity and ltp is the incumbent's price
ExactFill ==
    /\ [](LeftLoop /\ AddEvents[1].incumbent.quantity
                        = AddEvents[1].others[1][1].quantity =>
            LET incumbent == AddEvents[1].incumbent
                incoming == AddEvents[1].others[1][1]
                side == OwnBook(incumbent.kind)
            IN  /\ pc = "idle"
                /\ AddEvents = <<MatchEvent("Full", incumbent, incoming,
                                            incumbent.quantity)>>
                /\ \A r \in Resting(side) : r.id # incumbent.id
                /\ incumbent.price \in DOMAIN side =>
                      side[incumbent.price] # <<>>
                /\ ltp = Some(incumbent.price))
    /\ [][AboutToMeet /\ Met.quantity = order[1].quantity =>
            depth' = [depth EXCEPT ![Opposing(order[1].kind)] =
                                      @ - order[1].quantity]]_vars

\* C14: partial fill - an add whose first incumbent has more than the
\* incoming order's quantity q returns having emitted exactly one
\* Match(Partial) event with quantity q; the incumbent stays at the front of
\* its level with q less, the opposing depth drops by q, the incoming
\* order's side is unchanged and ltp is the incumbent's price
PartialFill ==
    /\ [](LeftLoop /\ U64Less(AddEvents[1].others[1][1].quantity,
                               AddEvents[1].incumbent.quantity) =>
            LET incumbent == AddEvents[1].incumbent
                incoming == AddEvents[1].others[1][1]
                side == OwnBook(incumbent.kind)
            IN  /\ pc = "idle"
                /\ AddEvents = <<MatchEvent("Partial", incumbent, incoming,
                                            incoming.quantity)>>
                /\ incumbent.price \in DOMAIN side
                /\ side[incumbent.price] # <<>>
                /\ Head(side[incumbent.price]) =
                      [incumbent EXCEPT !.quantity = @ - incoming.quantity]
                /\ ltp = Some(incumbent.price))
    /\ [][AboutToMeet /\ U64Less(order[1].quantity, Met.quantity) =>
            /\ depth' = [depth EXCEPT ![Opposing(order[1].kind)] =
                                         @ - order[1].quantity]
            /\ OwnBookUnchanged(order[1].kind)]_vars
    /\ [][/\ pc = "match"
          /\ AddEvents # <<>>
          /\ U64Less(order[1].quantity, AddEvents[1].incumbent.quantity)
          =>
          /\ depth' = depth
          /\ OwnBookUnchanged(order[1].kind)]_vars

\* C15: sweeping a smaller incumbent - an incumbent with less than the
\* quantity still to fill gets one Match(Full) event and the quantity still
\* to fill drops by its quantity; within one add no resting order is the
\* incumbent of more than one Match event
SweepsEachIncumbentOnce ==
    /\ [](\A i, j \in MatchEvents :
            /\ i < j
            /\ events[i].others[1][1].id = events[j].others[1][1].id
            => events[i].incumbent.id # events[j].incumbent.id)
    /\ [][/\ pc = "match"
          /\ NextIncumbent(opposing_side) # <<>>
          /\ U64Less(Met.quantity, quantity_remaining)
          =>
          /\ MatchEmitted
          /\ events'[Len(events')].match = "Full"
          /\ events'[Len(events')].incumbent = Met
          /\ quantity_remaining' = quantity_remaining - Met.quantity]_vars

\* the smaller of two u64 values
U64Min(a, b) == IF U64Less(a, b) THEN a ELSE b

RECURSIVE Traded(_)
\* the sum of the quantities recorded by a sequence of Match events
Traded(es) ==
    IF es = <<>> THEN 0
    ELSE Head(es).others[1][2] + Traded(Tail(es))

\* C16: every Match event records the quantity traded - the smaller of the
\* incumbent's quantity before the fill and the incoming quantity still
\* unfilled - and the quantities recorded for one add sum to at most the
\* incoming order's quantity
RecordsTradedQuantity ==
    /\ [][MatchEmitted =>
            events'[Len(events')].others[1][2] =
                U64Min(Met.quantity, quantity_remaining)]_vars
    /\ [](\A i \in MatchEvents :
            LET incoming == events[i].others[1][1]
            IN  Traded(EventsOfAdd(incoming.id)) <= incoming.quantity)

\* C17: no underflow - an iteration of the match loop subtracts from the
\* incumbent's quantity and from the opposing depth no more than they hold,
\* and the incumbent's quantity does not grow
NoUnderflow ==
    [][MatchEmitted =>
         /\ ~MatchArm(Met.quantity, depth[Opposing(order[1].kind)],
                      FALSE).wrapped
         /\ ~U64Less(Met.quantity,
                     IF Met.kind = "Bid"
                     THEN bids'[Met.price][1].quantity
                     ELSE asks'[Met.price][1].quantity)]_vars

\* C18: residual drop - a crossing add posts nothing: from the entry into
\* match to the return the incoming order's own side (levels, orders, depth
\* component) stays as the call found it
ResidualDropped ==
    /\ [][pc # "match" /\ pc' = "match" =>
            /\ bids' = bids
            /\ asks' = asks
            /\ depth' = depth]_vars
    /\ [][pc = "match" =>
            /\ OwnBookUnchanged(order[1].kind)
            /\ depth'[3 - Opposing(order[1].kind)] =
                  depth[3 - Opposing(order[1].kind)]]_vars

\* C19: limit-price safety - every Match event pairs a bid and an ask whose
\* bid price is at least the ask price: an incoming bid trades with no ask
\* above its limit, an incoming ask with no bid below its limit
LimitPriceSafety ==
    \A i \in MatchEvents :
        LET incumbent == events[i].incumbent
            incoming == events[i].others[1][1]
        IN  /\ incumbent.kind # incoming.kind
            /\ IF incoming.kind = "Bid"
               THEN incoming.price >= incumbent.price
               ELSE incumbent.price >= incoming.price

\* C19 witness: an incoming bid was matched with an ask priced below its
\* limit
LimitPriceSafetyWitness ==
    \E i \in MatchEvents :
        /\ events[i].others[1][1].kind = "Bid"
        /\ events[i].others[1][1].price > events[i].incumbent.price

\* C20: the events of one add are exactly one Post event or Match events
\* only, never a Post together with a Match, and no step of add appends a
\* Cancel event
PostOrMatches ==
    /\ [](\A id \in 1..submitted :
            LET es == EventsOfAdd(id)
            IN  \/ \A k \in 1..Len(es) : es[k].kind = "Match"
                \/ Len(es) = 1 /\ es[1].kind = "Post")
    /\ [][last_call' = "add" =>
            \/ events' = events
            \/ /\ Len(events') = Len(events) + 1
               /\ SubSeq(events', 1, Len(events)) = events
               /\ events'[Len(events')].kind \in {"Post", "Match"}]_vars

\* C20 witness: an add has returned having appended Match events only, after
\* an earlier add that appended one Post event
PostOrMatchesWitness ==
    /\ Returned({"add"})
    /\ AddEvents # <<>>
    /\ AddEvents[1].kind = "Match"
    /\ \E id \in 1..submitted :
          /\ Len(EventsOfAdd(id)) = 1
          /\ EventsOfAdd(id)[1].kind = "Post"

\* C21: every add that returns has appended at least one event, and every
\* cancel that finds its order appends at least one event
EveryCallJournals ==
    /\ [](Returned({"add"}) => AddEvents # <<>>)
    /\ [][\A id \in 1..submitted :
            OrderOf(id) # None /\ Cancel(id) =>
                Len(events') > Len(events)]_vars

\* the journal before the step is a prefix of the journal after it
JournalExtended ==
    /\ Len(events') >= Len(events)
    /\ SubSeq(events', 1, Len(events)) = events

\* C22: the journal is append-only - every step of add and cancel leaves
\* the journal it found as a prefix of the journal it leaves
AppendOnly == [][JournalExtended]_vars

\* C22 witness: an add has matched and a cancel has found its order after
\* earlier events were journalled
AppendOnlyWitness ==
    /\ Returned({"add", "cancel"})
    /\ \E i, j \in 2..Len(events) :
          events[i].kind = "Match" /\ events[j].kind = "Cancel"

\* the orders resting on either side
AllResting == Resting(bids) \cup Resting(asks)

\* the ids a caller may hand to cancel and order: those issued so far and one
\* that was never issued
OrderIds == 1..(submitted + 1)

\* the component of depth of the side an order of this kind rests on
Own(kind) == IF kind = "Bid" THEN 1 ELSE 2

\* C23: cancel(id) of an order resting on either side returns that order,
\* appends exactly one Cancel event carrying it and leaves it resting on no
\* level
CancelRemovesResting ==
    [][\A r \in AllResting :
         Cancel(r.id) =>
            /\ OrderOf(r.id) = Some(r)
            /\ pc' = "idle"
            /\ events' = Append(events, CancelEvent(r))
            /\ \A x \in AllResting' : x.id # r.id]_vars

\* C24: cancel(id) of a resting order lowers the order's side of depth by
\* the order's remaining quantity and leaves the other component as it is
CancelLowersDepth ==
    [][\A r \in AllResting :
         Cancel(r.id) =>
            depth' = [depth EXCEPT ![Own(r.kind)] = @ - r.quantity]]_vars

\* C25: cancel(id) with an id that is not resting returns absent, appends no
\* event and leaves both sides, depth and ltp as they are
CancelUnknownIsNoOp ==
    [][\A id \in OrderIds :
         (\A r \in AllResting : r.id # id) /\ Cancel(id) =>
            /\ OrderOf(id) = None
            /\ pc' = "idle"
            /\ UNCHANGED <<bids, asks, depth, ltp, events>>]_vars

\* C25 witness: a cancel that found nothing has returned on a book with
\* resting orders
CancelUnknownIsNoOpWitness ==
    /\ Returned({"cancel"})
    /\ AllResting # {}
    /\ \A i \in 1..Len(events) : events[i].kind # "Cancel"

\* C26: order(id) is the resting order with that id, with its current
\* quantity, when one rests on either side, and absent otherwise
OrderFindsResting ==
    pc = "idle" =>
        /\ \A r \in AllResting : OrderOf(r.id) = Some(r)
        /\ \A id \in OrderIds :
              (\A r \in AllResting : r.id # id) => OrderOf(id) = None

\* C27: a crossing add of an order with quantity 0 emits no Match event and
\* changes nothing - both sides, depth, ltp and the journal stay as they are
ZeroQuantityCrossIsNoOp ==
    [][(pc' = "match" /\ order'[1].quantity = 0)
         \/ (pc = "match" /\ order[1].quantity = 0) =>
            UNCHANGED <<bids, asks, depth, ltp, events>>]_vars

\* the orders of the journal's Post events, in journal order
RECURSIVE PostedOrders(_)
PostedOrders(es) ==
    IF es = <<>> THEN <<>>
    ELSE IF Head(es).kind = "Post"
    THEN <<Head(es).order>> \o PostedOrders(Tail(es))
    ELSE PostedOrders(Tail(es))

\* a side built from posted orders alone: one level per price, each level
\* in order of insertion
SideOf(os, kind) ==
    LET mine == SelectSeq(os, LAMBDA o : o.kind = kind)
    IN  [p \in {mine[i].price : i \in 1..Len(mine)} |->
            SelectSeq(mine, LAMBDA o : o.price = p)]

\* every add so far was posted and nothing was cancelled
OnlyPosts ==
    /\ pc = "idle"
    /\ Len(events) = submitted
    /\ \A i \in 1..Len(events) :
          events[i].kind = "Post" /\ events[i].order.id = i

\* C28: round trip of non-crossing adds - after adds none of which crossed
\* the resting orders are the orders added, each with its original quantity,
\* and every level holds its orders in order of insertion
NonCrossingRoundTrip ==
    OnlyPosts =>
        /\ bids = SideOf(PostedOrders(events), "Bid")
        /\ asks = SideOf(PostedOrders(events), "Ask")
        /\ Cardinality(AllResting) = submitted

\* C28 witness: three adds were posted, two of them to the same level, and
\* both sides hold orders
NonCrossingRoundTripWitness ==
    /\ OnlyPosts
    /\ submitted = 3
    /\ Resting(bids) # {}
    /\ Resting(asks) # {}
    /\ \E p \in DOMAIN bids : Len(bids[p]) = 2

\* C29: add on an empty (newly constructed) book posts - the order's side
\* holds one level at the order's price with exactly that order, the other
\* side is empty, depth is the order's quantity on its side and 0 on the
\* other, ltp is absent and the journal is [Post(order)]
AddOnEmptyBookPosts ==
    [][/\ pc = "idle"
       /\ events = <<>>
       /\ DOMAIN bids = {}
       /\ DOMAIN asks = {}
       /\ submitted' = submitted + 1
       =>
       /\ pc' = "idle"
       /\ Len(events') = 1
       /\ events'[1].kind = "Post"
       /\ LET o == events'[1].order
          IN  /\ o.id = submitted'
              /\ IF o.kind = "Bid"
                 THEN /\ bids' = [p \in {o.price} |-> <<o>>]
                      /\ DOMAIN asks' = {}
                      /\ depth' = <<o.quantity, 0>>
                 ELSE /\ asks' = [p \in {o.price} |-> <<o>>]
                      /\ DOMAIN bids' = {}
                      /\ depth' = <<0, o.quantity>>
       /\ ltp' = None]_vars

\* C29 witness: the first add on a new book has returned
AddOnEmptyBookPostsWitness ==
    /\ Returned({"add"})
    /\ submitted = 1
    /\ Len(events) = 1

\* the i-th order of the deep-cross scenario, submitted i-th
Scenario(i) ==
    PlainOrder(i, DeepCross[i].kind, DeepCross[i].price, DeepCross[i].quantity)

\* C30: deep-cross scenario - when the sixth add, of the ask (3.50, 1000),
\* returns after the five earlier adds of the scenario, the bid side is
\* empty, the ask side is {3.50:[1000], 16.00:[100], 20.50:[230]} and depth
\* is (0, 1330)
DeepCrossOutcome ==
    [][/\ Len(events) >= 5
       /\ SubSeq(events, 1, 5) = [i \in 1..5 |-> PostEvent(Scenario(i))]
       /\ \/ pc = "match" /\ order = Some(Scenario(6))
          \/ pc = "idle" /\ events' = Append(events, PostEvent(Scenario(6)))
       /\ pc' # "match"
       =>
       /\ pc' = "idle"
       /\ DOMAIN bids' = {}
       /\ DOMAIN asks' = {7, 32, 41}
       /\ asks'[7] = <<Scenario(6)>>
       /\ asks'[32] = <<Scenario(4)>>
       /\ asks'[41] = <<Scenario(5)>>
       /\ depth' = <<0, 1330>>]_vars

\* C31: the incumbent recorded in a Match event is the resting order as it
\* was immediately before that fill, and after a partial fill the order left
\* in the book has its quantity reduced by the quantity filled
IncumbentSnapshot ==
    [][pc = "match" /\ MatchEmitted =>
         LET e == events'[Len(events')]
             left == IF order[1].kind = "Bid" THEN asks'[Met.price][1]
                     ELSE bids'[Met.price][1]
         IN  /\ e.incumbent = Met
             /\ e.match = "Partial" =>
                   left = [Met EXCEPT !.quantity = @ - quantity_remaining]]_vars

\* match has left its loop and add is about to call prune
AboutToPrune == pc = "match" /\ NextIncumbent(opposing_side) = <<>>

\* C32: prune is idempotent - from any state in which add has left the match
\* loop, a prune that completes leaves sides and a removal list on which a
\* second prune changes nothing; prune writes to no other field, so depth,
\* ltp and the journal are the same after two runs as after one
PruneIdempotent ==
    AboutToPrune =>
        LET once == prune(bids, asks, removals)
            twice == prune(once.bids, once.asks, once.removals)
        IN  ~once.stuck => twice = once

\* add is about to prune a book from which a completing prune drops two
\* empty levels
PruneIdempotentWitness ==
    /\ AboutToPrune
    /\ ~prune(bids, asks, removals).stuck
    /\ Cardinality(EmptyKeys(bids)) = 2
    /\ prune(bids, asks, removals).bids # bids

RECURSIVE LevelsOf(_, _)
\* one side of levels(): the side's iter(), ascending by price, mapped to
\* (price, sum of the quantities of the level's orders)
LevelsOf(side, ks) ==
    IF ks = {} THEN <<>>
    ELSE LET p == MinKey(ks)
         IN  <<<<p, SumQuantity(side[p])>>>> \o LevelsOf(side, ks \ {p})

\* levels()
levels ==
    [bids |-> LevelsOf(bids, DOMAIN bids), asks |-> LevelsOf(asks, DOMAIN asks)]

RECURSIVE SumAggregates(_)
\* the sum of the aggregate quantities of one side of levels()
SumAggregates(pairs) ==
    IF pairs = <<>> THEN 0 ELSE Head(pairs)[2] + SumAggregates(Tail(pairs))

\* one side of levels() has one pair per level of the side, in ascending
\* price order, each with the sum of the quantities at its level
LevelsShape(pairs, side) ==
    /\ Len(pairs) = Cardinality(DOMAIN side)
    /\ \A i \in 1..Len(pairs) :
          /\ pairs[i][1] \in DOMAIN side
          /\ pairs[i][2] = SumQuantity(side[pairs[i][1]])
          /\ \A j \in 1..Len(pairs) : i < j => pairs[i][1] < pairs[j][1]

\* C33: between calls, levels() has for each side one (price, aggregate)
\* pair per price level in ascending price order, the aggregate being the
\* sum of the quantities at the level, and the aggregates of a side sum to
\* that side's component of depth
LevelsSumToDepth ==
    pc = "idle" =>
        /\ LevelsShape(levels.bids, bids)
        /\ LevelsShape(levels.asks, asks)
        /\ SumAggregates(levels.bids) = depth[1]
        /\ SumAggregates(levels.asks) = depth[2]

\* this step is an add that took the branch of add_order
NonCrossingAdd == pc = "idle" /\ submitted' = submitted + 1 /\ pc' # "match"

RemoveOrderReleasesGuard ==
    [][/\ AboutToPrune
       /\ events' = events
       /\ \E i \in 1..Len(removals) : LevelsWith(asks, removals[i]) # {}
       =>
       /\ pc' = "idle"
       /\ \A i \in 1..Len(removals) : LevelsWith(asks', removals[i]) = {}]_vars

\* the ids of the incumbents of the Match(Full) events of the running add
FullyFilled ==
    {AddEvents[i].incumbent.id :
        i \in {j \in 1..Len(AddEvents) : AddEvents[j].match = "Full"}}

\* the ids of the orders of a level, front first
Ids(level) == [i \in 1..Len(level) |-> level[i].id]

\* a side after the removal of exactly the orders with these ids: every other
\* order rests at its level in its relative position (a level left without
\* orders may be dropped)
WithoutExactly(after, before, ids) ==
    /\ DOMAIN after \subseteq DOMAIN before
    /\ \A p \in DOMAIN before :
          LET kept == SelectSeq(before[p], LAMBDA x : x.id \notin ids)
          IN  IF p \in DOMAIN after THEN after[p] = kept ELSE kept = <<>>

\* C37: the pruning step of add removes exactly the incumbents this add
\* fully filled - the match loop removes and moves no order, and the step
\* that ends the add leaves on each side the orders that were not the
\* incumbent of a Match(Full) event of this add, at their levels and in
\* their relative positions, and none of those that were
PruneRemovesExactlyFilled ==
    /\ [][pc = "match" /\ pc' = "match" =>
            /\ DOMAIN bids' = DOMAIN bids
            /\ DOMAIN asks' = DOMAIN asks
            /\ \A p \in DOMAIN bids : Ids(bids'[p]) = Ids(bids[p])
            /\ \A p \in DOMAIN asks : Ids(asks'[p]) = Ids(asks[p])]_vars
    /\ [][AboutToPrune /\ events' = events =>
            /\ WithoutExactly(bids', bids, FullyFilled)
            /\ WithoutExactly(asks', asks, FullyFilled)]_vars

\* C34: event timestamps are non-decreasing along the journal - every event
\* has a timestamp and no event's timestamp is earlier than that of the
\* event before it
TimestampsNonDecreasing ==
    /\ Len(timestamps) = Len(events)
    /\ \A i \in 1..(Len(timestamps) - 1) : timestamps[i] <= timestamps[i + 1]

\* C38: concurrent adds on two clones lose no depth reduction - the write
\* that ends a reduce_depth lowers the depth as it stands at that moment by
\* the reduction, on the matched side only, whatever the other thread wrote
\* since reduce_depth read depth
DepthReductionsKept ==
    [][other.pc = "write" /\ other'.pc = "match" =>
         depth' = [depth EXCEPT ![Opposing(other.order[1].kind)] =
                                   @ - other.reduction]]_vars

\* C39: in the legacy Book, submit of an order that matches nothing records
\* the order in the orders map, so that get_order(id) returns it, and places
\* it in the queue of its price level on its own side, so that a level that
\* held no order holds exactly that order
LegacySubmitRests ==
    [][\A id \in 1..LegacyOrders, order_type \in OrderKind,
          price \in 1..LegacyPrice, quantity \in 1..LegacyQty :
          LET o == LegacyOrder(id, order_type, price, quantity)
              before == IF order_type = "Bid" THEN legacy.bids ELSE legacy.asks
              own == IF order_type = "Bid" THEN legacy'.bids ELSE legacy'.asks
          IN  /\ submit(o)
              /\ ~LegacyMatch(o).matched
              /\ (price \in DOMAIN before => before[price] = <<>>)
              =>
                /\ id \in DOMAIN legacy'.orders
                /\ legacy'.orders[id] = o
                /\ price \in DOMAIN own
                /\ own[price] = <<o>>]_vars

====
